---------------------------- MODULE Spec2Model ----------------------------
(***************************************************************************)
(* A model of ctdb/common/sock_daemon.c: a daemon serving clients over     *)
(* unix domain sockets on one tevent loop.                                 *)
(*                                                                         *)
(* Every C function is an operator that maps a state record s (the         *)
(* variables as fields) to the state after the call, so that a handler     *)
(* that calls other functions (a destructor chain, the shutdown sequence)  *)
(* is one composed operator.  An action is one step of the event loop or   *)
(* one call of the public interface: it applies one handler to the         *)
(* current state.  The variable ev describes that step as an observer      *)
(* sees it: the handler, its inputs, its return value and, in the order    *)
(* the code makes them, the callbacks and system calls of the step.        *)
(***************************************************************************)
EXTENDS Integers, Sequences, FiniteSets, TLC

VARIABLES
    sockd,    \* struct sock_daemon_context
    socks,    \* struct sock_socket, by listener id
    starts,   \* struct sock_socket_start_state and its request, by listener id
    conns,    \* struct sock_client + struct sock_client_context, by connection id
    kernel,   \* open file descriptors, socket paths on the filesystem
    run,      \* struct sock_daemon_start_state and the run request
    sig,      \* position of tevent's pass over the pending signals
    app,      \* what has happened so far: callbacks counted, paths supplied
    writes,   \* struct sock_socket_write_state and its request, by write id
    ev        \* the last step: handler, inputs, return value, trace

vars == <<sockd, socks, starts, conns, kernel, run, sig, app, writes, ev>>

-----------------------------------------------------------------------------
(* Bounds of the model *)

MaxSocks == 2      \* listeners registered by sock_daemon_add_unix
MaxConns == 2      \* connections accepted over all listeners
MaxMsgs == 2       \* messages the transport delivers on one connection
MaxWrites == 1     \* sock_socket_write_send calls

(* Program constants *)

ESRCH == 3
EINTR == 4
EIO == 5
ENOMEM == 12
EINVAL == 22
SIGHUP == 1
SIGINT == 2
SIGUSR1 == 10
SIGTERM == 15

SockIds == 1..MaxSocks
ConnIds == 1..MaxConns
WriteIds == 1..MaxWrites

Signals == {SIGHUP, SIGINT, SIGUSR1, SIGTERM}

\* Socket paths: two that fit struct sockaddr_un, one that does not.
ShortPaths == {"a.sock", "b.sock"}
LongPath == "long.sock"
Paths == ShortPaths \cup {LongPath}
\* strlcpy's return compared with sizeof(addr.sun_path)
PathTooLong(p) == p = LongPath

\* struct sock_socket_funcs: which callbacks are set; null is funcs == NULL
SockFuncs(n, c, d, rs, rr) ==
    [null |-> n, connect |-> c, disconnect |-> d, read_send |-> rs, read_recv |-> rr]
NullSockFuncs == SockFuncs(TRUE, FALSE, FALSE, FALSE, FALSE)
FullSockFuncs == SockFuncs(FALSE, TRUE, TRUE, TRUE, TRUE)
MinSockFuncs == SockFuncs(FALSE, FALSE, FALSE, TRUE, TRUE)
NoReadSendFuncs == SockFuncs(FALSE, TRUE, TRUE, FALSE, TRUE)
NoReadRecvFuncs == SockFuncs(FALSE, TRUE, TRUE, TRUE, FALSE)
ValidSockFuncs == {FullSockFuncs, MinSockFuncs}
SockFuncsInputs ==
    ValidSockFuncs \cup {NullSockFuncs, NoReadSendFuncs, NoReadRecvFuncs}

\* struct sock_daemon_funcs
NullDaemonFuncs ==
    [null |-> TRUE, startup |-> FALSE, reconfigure |-> FALSE, shutdown |-> FALSE]
FullDaemonFuncs ==
    [null |-> FALSE, startup |-> TRUE, reconfigure |-> TRUE, shutdown |-> TRUE]

\* File descriptors: listening sockets are even, accepted sockets odd.
ListenFd(l) == 2 * l
ClientFd(c) == 2 * c + 1
IsListenFd(fd) == fd % 2 = 0

-----------------------------------------------------------------------------
(* The state as a record *)

Cur ==
    [sockd |-> sockd, socks |-> socks, starts |-> starts, conns |-> conns,
     kernel |-> kernel, run |-> run, sig |-> sig, app |-> app,
     writes |-> writes, ev |-> ev]

Apply(s) ==
    /\ sockd' = s.sockd
    /\ socks' = s.socks
    /\ starts' = s.starts
    /\ conns' = s.conns
    /\ kernel' = s.kernel
    /\ run' = s.run
    /\ sig' = s.sig
    /\ app' = s.app
    /\ writes' = s.writes
    /\ ev' = s.ev

\* talloc states of an object (mem, client, ctx): "none" not allocated or
\* freed, "live", "freeing" inside its destructor (talloc_free of it returns
\* -1); a listener that was freed keeps "freed" and its path, a connection
\* that was freed is NoConn again (its id is not used again).
NoSock ==
    [mem |-> "none", sockpath |-> "", funcs |-> NullSockFuncs, fd |-> -1, req |-> FALSE]
NoStart == [req |-> "none", accept |-> FALSE, client_list |-> <<>>]
NoConn ==
    [sock |-> 0,
     client |-> "none", client_dtor |-> FALSE, client_ctx_ptr |-> FALSE,
     ctx |-> "none", ctx_dtor |-> FALSE, ctx_client_ptr |-> FALSE,
     fd |-> -1, comm |-> FALSE, pending |-> 0, nmsg |-> 0]
NoWrite == [conn |-> 0, subreq |-> FALSE, status |-> 0, req |-> "none"]

\* A step: h the handler, id its listener, connection, signal or write,
\* ok and fail the outcomes the environment chose, ret the return value,
\* made the fds created, pathops the unlink and bind calls, trace the
\* callbacks and releases as pairs <<what, id>>.
NoEv ==
    [h |-> "setup", id |-> 0, ok |-> TRUE, fail |-> "none", sockpath |-> "",
     funcs |-> NullSockFuncs, ret |-> 0, made |-> 0, pathops |-> 0, trace |-> <<>>]

Begin(s, h, id) == [s EXCEPT !.ev = [NoEv EXCEPT !.h = h, !.id = id]]
Emit(s, what, id) == [s EXCEPT !.ev.trace = Append(@, <<what, id>>)]

\* The C sequence "x = e; rest": rest sees the value of e as x.
Then(x, rest(_)) == rest(x)

RemoveFrom(seq, x) == SelectSeq(seq, LAMBDA y : y # x)

close(s, fd) == Emit([s EXCEPT !.kernel.fds = @ \ {fd}], "close", fd)

-----------------------------------------------------------------------------
(* Process a single client *)

RECURSIVE talloc_free_client(_, _)
RECURSIVE talloc_free_client_ctx(_, _)

\* A faulty sock_client_context_destructor that closes the fd before it
\* frees the client and again after it.
sock_client_context_destructor_close_twice(s, c) ==
    Then(IF s.conns[c].ctx_client_ptr
         THEN [talloc_free_client(close(s, s.conns[c].fd), c)
                  EXCEPT !.conns[c].ctx_client_ptr = FALSE]
         ELSE s, LAMBDA s1 :
    Then(IF s1.conns[c].comm
         THEN Emit([s1 EXCEPT !.conns[c].comm = FALSE], "comm_free", c)
         ELSE s1, LAMBDA s2 :
    IF s2.conns[c].fd # -1
    THEN [close(s2, s2.conns[c].fd) EXCEPT !.conns[c].fd = -1]
    ELSE s2))

\* sock_client_context_destructor: TALLOC_FREE(client), TALLOC_FREE(comm),
\* close the fd unless it is already -1.
sock_client_context_destructor(s, c) ==
    Then(IF s.conns[c].ctx_client_ptr
         THEN [talloc_free_client(s, c) EXCEPT !.conns[c].ctx_client_ptr = FALSE]
         ELSE s, LAMBDA s1 :
    Then(IF s1.conns[c].comm
         THEN Emit([s1 EXCEPT !.conns[c].comm = FALSE], "comm_free", c)
         ELSE s1, LAMBDA s2 :
    IF s2.conns[c].fd # -1
    THEN [close(s2, s2.conns[c].fd) EXCEPT !.conns[c].fd = -1]
    ELSE s2))

\* sock_socket_start_client_destructor: DLIST_REMOVE from the listener's
\* client list, TALLOC_FREE(client->client_ctx).
sock_socket_start_client_destructor(s, c) ==
    Then(Emit([s EXCEPT !.starts[s.conns[c].sock].client_list = RemoveFrom(@, c)],
              "unlisted", c), LAMBDA s1 :
    IF s1.conns[c].client_ctx_ptr
    THEN [talloc_free_client_ctx(s1, c) EXCEPT !.conns[c].client_ctx_ptr = FALSE]
    ELSE s1)

\* talloc_free of a struct sock_client: refused while its destructor runs;
\* else the destructor (if set), then the children (the client context,
\* unless that one is inside its own destructor: talloc then reparents it).
talloc_free_client(s, c) ==
    IF s.conns[c].client # "live" THEN s
    ELSE Then([s EXCEPT !.conns[c].client = "freeing"], LAMBDA s1 :
         Then(IF s1.conns[c].client_dtor
              THEN sock_socket_start_client_destructor(s1, c)
              ELSE s1, LAMBDA s2 :
         Then(IF s2.conns[c].ctx = "live" THEN talloc_free_client_ctx(s2, c) ELSE s2,
              LAMBDA s3 :
         [s3 EXCEPT !.conns[c].client = "none",
                    !.conns[c].client_dtor = FALSE,
                    !.conns[c].client_ctx_ptr = FALSE,
                    !.conns[c].sock = IF s3.conns[c].ctx = "none" THEN 0 ELSE @])))

\* talloc_free of a struct sock_client_context: the destructor (if set), then
\* the children: the transport and the read requests the application made
\* with the context as their memory context.
talloc_free_client_ctx(s, c) ==
    IF s.conns[c].ctx # "live" THEN s
    ELSE Then([s EXCEPT !.conns[c].ctx = "freeing"], LAMBDA s1 :
         Then(IF s1.conns[c].ctx_dtor
              THEN sock_client_context_destructor(s1, c)
              ELSE s1, LAMBDA s2 :
         Then(IF s2.conns[c].comm THEN Emit(s2, "comm_free", c) ELSE s2, LAMBDA s3 :
         Then(IF s3.conns[c].pending > 0 THEN Emit(s3, "read_free", c) ELSE s3,
              LAMBDA s4 :
         [s4 EXCEPT !.conns[c].ctx = "none",
                    !.conns[c].ctx_dtor = FALSE,
                    !.conns[c].ctx_client_ptr = FALSE,
                    !.conns[c].comm = FALSE,
                    !.conns[c].fd = -1,
                    !.conns[c].pending = 0,
                    !.conns[c].nmsg = 0,
                    !.conns[c].sock = IF s4.conns[c].client = "none" THEN 0 ELSE @]))))

\* sock_client_context_init.  env.fail names the allocation that fails (if
\* any), env.connect is what the connect callback returns.  The result is
\* the state and the return value.
sock_client_context_init(s, c, env) ==
    IF env.fail = "client_ctx" THEN [s |-> s, ret |-> ENOMEM]
    ELSE Then([s EXCEPT !.conns[c].ctx = "live",
                        !.conns[c].fd = ClientFd(c),
                        !.conns[c].ctx_client_ptr = TRUE], LAMBDA s1 :
         IF env.fail = "comm_setup"
         THEN [s |-> talloc_free_client_ctx(s1, c), ret |-> ENOMEM]
         ELSE Then([s1 EXCEPT !.conns[c].comm = TRUE], LAMBDA s2 :
              IF ~s2.socks[s2.conns[c].sock].funcs.connect
              THEN [s |-> [s2 EXCEPT !.conns[c].ctx_dtor = TRUE,
                                     !.conns[c].client_ctx_ptr = TRUE],
                    ret |-> 0]
              ELSE IF ~env.connect
              THEN [s |-> close(talloc_free_client_ctx(Emit(s2, "connect", c), c),
                                ClientFd(c)),
                    ret |-> 0]
              ELSE [s |-> [Emit(s2, "connect", c) EXCEPT
                              !.conns[c].ctx_dtor = TRUE,
                              !.conns[c].client_ctx_ptr = TRUE],
                    ret |-> 0]))

\* sock_client_read_handler: the transport delivers one message; read_send
\* returns a request or NULL.
sock_client_read_handler(s, c, subreq_ok) ==
    IF ~subreq_ok
    THEN talloc_free_client_ctx(
             Emit([s EXCEPT !.conns[c].nmsg = @ + 1], "read_send", c), c)
    ELSE Emit([s EXCEPT !.conns[c].nmsg = @ + 1, !.conns[c].pending = @ + 1],
              "read_send", c)

\* A faulty sock_client_read_done that frees the next session as well when
\* read_recv reports failure.
sock_client_read_done_frees_next(s, c, status) ==
    IF ~status
    THEN talloc_free_client_ctx(
             talloc_free_client_ctx(
                 Emit([s EXCEPT !.conns[c].pending = @ - 1], "read_recv", c), c),
             (c % MaxConns) + 1)
    ELSE Emit([s EXCEPT !.conns[c].pending = @ - 1], "read_recv", c)

\* sock_client_read_done: a read request completes; read_recv reports status.
sock_client_read_done(s, c, status) ==
    IF ~status
    THEN talloc_free_client_ctx(
             Emit([s EXCEPT !.conns[c].pending = @ - 1], "read_recv", c), c)
    ELSE Emit([s EXCEPT !.conns[c].pending = @ - 1], "read_recv", c)

\* A faulty sock_client_dead_handler that frees the client context without
\* calling the disconnect callback.
sock_client_dead_handler_silent(s, c) ==
    talloc_free_client_ctx(s, c)

\* A faulty sock_client_dead_handler that frees the client context first and
\* calls the disconnect callback after it.
sock_client_dead_handler_late(s, c) ==
    IF s.socks[s.conns[c].sock].funcs.disconnect
    THEN Emit(talloc_free_client_ctx(s, c), "disconnect", c)
    ELSE talloc_free_client_ctx(s, c)

\* sock_client_dead_handler: the transport reports the peer dead.
sock_client_dead_handler(s, c) ==
    IF s.socks[s.conns[c].sock].funcs.disconnect
    THEN talloc_free_client_ctx(Emit(s, "disconnect", c), c)
    ELSE talloc_free_client_ctx(s, c)

-----------------------------------------------------------------------------
(* Process a single listening socket *)

unlink(s, sockpath) == [s EXCEPT !.kernel.fs = @ \ {sockpath}, !.ev.pathops = @ + 1]

\* bind() and listen() of socket_setup on fd: bind fails when the path exists.
bind_listen(s, fd, sockpath, fail) ==
    IF fail = "bind" \/ sockpath \in s.kernel.fs
    THEN [s |-> close([s EXCEPT !.ev.pathops = @ + 1], fd), fd |-> -1]
    ELSE IF fail = "listen"
    THEN [s |-> close([s EXCEPT !.ev.pathops = @ + 1,
                                !.kernel.fs = @ \cup {sockpath}], fd),
          fd |-> -1]
    ELSE [s |-> [s EXCEPT !.ev.pathops = @ + 1, !.kernel.fs = @ \cup {sockpath}],
          fd |-> fd]

\* socket_setup.  fail names the system call that fails (if any).  The
\* result is the state and the fd or -1.
socket_setup(s, l, sockpath, remove_before_use, fail) ==
    IF PathTooLong(sockpath) \/ fail = "socket"
    THEN [s |-> s, fd |-> -1]
    ELSE Then([s EXCEPT !.kernel.fds = @ \cup {ListenFd(l)}, !.ev.made = @ + 1],
              LAMBDA s1 :
         IF fail = "set_blocking"
         THEN [s |-> close(s1, ListenFd(l)), fd |-> -1]
         ELSE IF remove_before_use
         THEN bind_listen(unlink(s1, sockpath), ListenFd(l), sockpath, fail)
         ELSE bind_listen(s1, ListenFd(l), sockpath, fail))

\* A faulty sock_socket_init that checks funcs but not its read callbacks.
sock_socket_init_unchecked(s, l, sockpath, funcs, remove_before_use, fail) ==
    IF funcs.null
    THEN [s |-> s, ret |-> EINVAL]
    ELSE IF fail = "sock"
    THEN [s |-> s, ret |-> ENOMEM]
    ELSE Then(socket_setup(s, l, sockpath, remove_before_use, fail), LAMBDA r :
         IF r.fd = -1
         THEN [s |-> r.s, ret |-> EIO]
         ELSE [s |-> [r.s EXCEPT !.socks[l] =
                         [mem |-> "live", sockpath |-> sockpath, funcs |-> funcs,
                          fd |-> r.fd, req |-> FALSE]],
               ret |-> 0])

\* sock_socket_init: the result is the state and the return value.  The
\* destructor is set on success only, so a failure frees without it.
sock_socket_init(s, l, sockpath, funcs, remove_before_use, fail) ==
    IF funcs.null
    THEN [s |-> s, ret |-> EINVAL]
    ELSE IF ~funcs.read_send \/ ~funcs.read_recv
    THEN [s |-> s, ret |-> EINVAL]
    ELSE IF fail = "sock"
    THEN [s |-> s, ret |-> ENOMEM]
    ELSE Then(socket_setup(s, l, sockpath, remove_before_use, fail), LAMBDA r :
         IF r.fd = -1
         THEN [s |-> r.s, ret |-> EIO]
         ELSE [s |-> [r.s EXCEPT !.socks[l] =
                         [mem |-> "live", sockpath |-> sockpath, funcs |-> funcs,
                          fd |-> r.fd, req |-> FALSE]],
               ret |-> 0])

\* A faulty sock_socket_destructor that closes the fd and leaves the path.
sock_socket_destructor_keep_path(s, l) ==
    IF s.socks[l].fd # -1
    THEN [close(s, s.socks[l].fd) EXCEPT !.socks[l].fd = -1]
    ELSE s

\* sock_socket_destructor: close the fd unless it is -1, unlink the path.
sock_socket_destructor(s, l) ==
    IF s.socks[l].fd # -1
    THEN Emit(unlink([close(s, s.socks[l].fd) EXCEPT !.socks[l].fd = -1],
                     s.socks[l].sockpath), "unlink", l)
    ELSE Emit(unlink(s, s.socks[l].sockpath), "unlink", l)

\* talloc_free of a struct sock_socket
talloc_free_sock(s, l) ==
    IF s.socks[l].mem # "live" THEN s
    ELSE [sock_socket_destructor(s, l) EXCEPT !.socks[l].mem = "freed",
                                              !.socks[l].req = FALSE]

\* sock_socket_start_send: the accept loop's request, with the first accept
\* posted.
sock_socket_start_send(s, l) ==
    [s EXCEPT !.starts[l] = [req |-> "in_progress", accept |-> TRUE, client_list |-> <<>>]]

\* sock_socket_start_state_destructor: free every client of the list.
RECURSIVE sock_socket_start_state_destructor(_, _)
sock_socket_start_state_destructor(s, l) ==
    IF s.starts[l].client_list = <<>> THEN s
    ELSE sock_socket_start_state_destructor(
             talloc_free_client(s, Head(s.starts[l].client_list)), l)

\* talloc_free of the accept loop's request: the state's destructor, then its
\* children (the pending accept).
talloc_free_start(s, l) ==
    IF s.starts[l].req \in {"none", "freed"} THEN s
    ELSE [sock_socket_start_state_destructor(s, l)
             EXCEPT !.starts[l].req = "freed", !.starts[l].accept = FALSE]

\* tevent_req_is_unix_error as the recv functions use it: a request that is
\* not done counts as an error; only a user error carries its own value.
req_is_unix_error(state, err) ==
    IF state = "done" THEN [is |-> FALSE, err |-> 0]
    ELSE IF state = "user_error" THEN [is |-> TRUE, err |-> err]
    ELSE IF state = "no_memory" THEN [is |-> TRUE, err |-> ENOMEM]
    ELSE [is |-> TRUE, err |-> EINVAL]

\* sock_socket_start_recv: clears sock->req; the request's state decides.
sock_socket_start_recv(s, l) ==
    [s |-> [s EXCEPT !.socks[l].req = FALSE],
     status |-> ~req_is_unix_error(s.starts[l].req, 0).is,
     ret |-> req_is_unix_error(s.starts[l].req, 0).err]

-----------------------------------------------------------------------------
(* Socket daemon *)

\* tevent_req_error and tevent_req_done on the run request: the request is
\* finished from this point of the handler on, and its callback is called.
tevent_req_error(s, err) ==
    Emit([s EXCEPT !.run.req = "user_error", !.run.err = err], "run_complete", err)

tevent_req_done(s) == Emit([s EXCEPT !.run.req = "done"], "run_complete", 0)

\* A faulty sock_daemon_reconfigure that calls the callback twice.
sock_daemon_reconfigure_twice(s) ==
    IF ~s.sockd.funcs.null /\ s.sockd.funcs.reconfigure
    THEN Emit(Emit(s, "reconfigure", 0), "reconfigure", 0)
    ELSE s

\* sock_daemon_reconfigure
sock_daemon_reconfigure(s) ==
    IF ~s.sockd.funcs.null /\ s.sockd.funcs.reconfigure
    THEN Emit(s, "reconfigure", 0)
    ELSE s

\* TALLOC_FREE(sock->req); TALLOC_FREE(sock) of sock_daemon_shutdown's loop
free_listener(s, l) ==
    IF s.socks[l].req
    THEN talloc_free_sock([talloc_free_start(s, l) EXCEPT !.socks[l].req = FALSE], l)
    ELSE talloc_free_sock(s, l)

\* The while loop of sock_daemon_shutdown: detach the head of the socket
\* list, free its accept loop, free it.
RECURSIVE shutdown_sockets(_)
shutdown_sockets(s) ==
    IF s.sockd.socket_list = <<>> THEN s
    ELSE shutdown_sockets(
             free_listener([s EXCEPT !.sockd.socket_list = Tail(@)],
                           Head(s.sockd.socket_list)))

\* A faulty sock_daemon_shutdown that calls the shutdown callback before it
\* frees the listeners.
sock_daemon_shutdown_callback_first(s) ==
    Then(IF ~s.sockd.funcs.null /\ s.sockd.funcs.shutdown
         THEN Emit([s EXCEPT !.app.shutdown = @ + 1], "shutdown", 0)
         ELSE s, LAMBDA s1 :
    Then(shutdown_sockets(s1), LAMBDA s2 :
    Then(IF s2.sockd.pid_ctx
         THEN Emit([s2 EXCEPT !.sockd.pid_ctx = FALSE], "pidfile_free", 0)
         ELSE s2, LAMBDA s3 :
    [s3 EXCEPT !.app.shutdowns = @ + 1])))

\* sock_daemon_shutdown
sock_daemon_shutdown(s) ==
    Then(shutdown_sockets(s), LAMBDA s1 :
    Then(IF ~s1.sockd.funcs.null /\ s1.sockd.funcs.shutdown
         THEN Emit([s1 EXCEPT !.app.shutdown = @ + 1], "shutdown", 0)
         ELSE s1, LAMBDA s2 :
    Then(IF s2.sockd.pid_ctx
         THEN Emit([s2 EXCEPT !.sockd.pid_ctx = FALSE], "pidfile_free", 0)
         ELSE s2, LAMBDA s3 :
    [s3 EXCEPT !.app.shutdowns = @ + 1])))

\* A faulty sock_daemon_socket_fail that fails the run request and frees the
\* failed listener alone.
sock_daemon_socket_fail_one(s, l) ==
    Then(sock_socket_start_recv(s, l), LAMBDA r :
    Then(talloc_free_start(r.s, l), LAMBDA s1 :
    free_listener([tevent_req_error(s1, r.ret) EXCEPT
                      !.sockd.socket_list = RemoveFrom(@, l)], l)))

\* sock_daemon_socket_fail: the callback of a listener's accept loop request.
sock_daemon_socket_fail(s, l) ==
    Then(sock_socket_start_recv(s, l), LAMBDA r :
    Then(talloc_free_start(r.s, l), LAMBDA s1 :
    IF ~r.status
    THEN sock_daemon_shutdown(tevent_req_error(s1, r.ret))
    ELSE sock_daemon_shutdown(tevent_req_done(s1))))

\* tevent_req_nomem(ptr, req) on an accept loop's request with ptr == NULL:
\* the request fails and its callback runs at once.
start_req_nomem(s, l) ==
    sock_daemon_socket_fail([s EXCEPT !.starts[l].req = "no_memory"], l)

\* accept_recv of sock_socket_start_new_client: the kernel has made fd c for
\* the new connection, or accept gave -1.
accept_recv(s, l, c, accepted) ==
    IF accepted
    THEN Emit([s EXCEPT !.kernel.naccept = c,
                        !.kernel.fds = @ \cup {ClientFd(c)},
                        !.starts[l].accept = FALSE], "accepted", c)
    ELSE [s EXCEPT !.starts[l].accept = FALSE]

\* sock_socket_start_new_client from the allocation of the client on.
new_client(s, l, c, env) ==
    IF env.fail = "client"
    THEN close(start_req_nomem(s, l), ClientFd(c))
    ELSE Then(sock_client_context_init(
                  [s EXCEPT !.conns[c].client = "live", !.conns[c].sock = l], c, env),
              LAMBDA r :
         IF r.ret # 0
         THEN talloc_free_client(r.s, c)
         ELSE Emit([r.s EXCEPT !.conns[c].client_dtor = TRUE,
                               !.starts[l].client_list = <<c>> \o @], "listed", c))

\* A faulty sock_socket_start_new_client that looks at the outcome of the
\* accept first and posts the next accept only after a successful one.
sock_socket_start_new_client_no_repost(s, l, env) ==
    Then(accept_recv(s, l, s.kernel.naccept + 1, env.accepted), LAMBDA s1 :
    IF ~env.accepted
    THEN s1
    ELSE IF env.fail = "accept_send"
    THEN start_req_nomem(s1, l)
    ELSE new_client(Emit([s1 EXCEPT !.starts[l].accept = TRUE], "accept_send", l),
                    l, s.kernel.naccept + 1, env))

\* sock_socket_start_new_client: the callback of a completed accept.
\* env.accepted: accept gave an fd (else -1); env.fail: the allocation that
\* fails (if any); env.connect: what the connect callback returns.
sock_socket_start_new_client(s, l, env) ==
    Then(accept_recv(s, l, s.kernel.naccept + 1, env.accepted), LAMBDA s1 :
    IF env.fail = "accept_send"
    THEN start_req_nomem(s1, l)
    ELSE IF ~env.accepted
    THEN Emit([s1 EXCEPT !.starts[l].accept = TRUE], "accept_send", l)
    ELSE new_client(Emit([s1 EXCEPT !.starts[l].accept = TRUE], "accept_send", l),
                    l, s.kernel.naccept + 1, env))

NumSocks(s) == Cardinality({l \in SockIds : s.socks[l].mem # "none"})

\* A faulty sock_daemon_add_unix that always asks for the path to be removed
\* before use.
sock_daemon_add_unix_always_remove(s, sockpath, funcs, fail) ==
    Then(sock_socket_init(s, NumSocks(s) + 1, sockpath, funcs, TRUE, fail),
         LAMBDA r :
    IF r.ret # 0
    THEN [r.s EXCEPT !.ev.ret = r.ret, !.app.supplied = @ \cup {sockpath}]
    ELSE [r.s EXCEPT !.sockd.socket_list = <<NumSocks(s) + 1>> \o @,
                     !.ev.ret = r.ret, !.app.supplied = @ \cup {sockpath}])

\* sock_daemon_add_unix
sock_daemon_add_unix(s, sockpath, funcs, fail) ==
    Then(sock_socket_init(s, NumSocks(s) + 1, sockpath, funcs, s.sockd.pid_ctx, fail),
         LAMBDA r :
    IF r.ret # 0
    THEN [r.s EXCEPT !.ev.ret = r.ret, !.app.supplied = @ \cup {sockpath}]
    ELSE [r.s EXCEPT !.sockd.socket_list = <<NumSocks(s) + 1>> \o @,
                     !.ev.ret = r.ret, !.app.supplied = @ \cup {sockpath}])

\* The loop of sock_daemon_run_send over the socket list.
RECURSIVE start_sockets(_, _)
start_sockets(s, list) ==
    IF list = <<>> THEN s
    ELSE start_sockets([sock_socket_start_send(s, Head(list))
                           EXCEPT !.socks[Head(list)].req = TRUE], Tail(list))

\* sock_daemon_run_send: the started timer, the four signal handlers, one
\* accept loop per listener, the pid poller if pid_watch > 1.  fail = "req":
\* tevent_req_create returns NULL; fail = "nomem": the first allocation after
\* it fails and the request is posted as failed.
sock_daemon_run_send(s, pid_watch, fail) ==
    IF fail = "req" THEN [s EXCEPT !.run.req = "null"]
    ELSE IF fail = "nomem"
    THEN [s EXCEPT !.run.req = "no_memory", !.run.pid_watch = pid_watch]
    ELSE [start_sockets(
              [s EXCEPT !.run = [req |-> "in_progress", err |-> 0, ret |-> -1,
                                 pid_watch |-> pid_watch, started_timer |-> TRUE,
                                 watch_timer |-> pid_watch > 1]],
              s.sockd.socket_list)
            EXCEPT !.sockd.req = TRUE]

\* A faulty sock_daemon_started whose timer stays armed after it has fired.
sock_daemon_started_again(s) ==
    IF ~s.sockd.funcs.null /\ s.sockd.funcs.startup
    THEN Emit([s EXCEPT !.app.startup = @ + 1], "startup", 0)
    ELSE s

\* sock_daemon_started
sock_daemon_started(s) ==
    IF ~s.sockd.funcs.null /\ s.sockd.funcs.startup
    THEN Emit([s EXCEPT !.run.started_timer = FALSE, !.app.startup = @ + 1],
              "startup", 0)
    ELSE [s EXCEPT !.run.started_timer = FALSE]

\* A faulty sock_daemon_signal_handler that shuts down on SIGINT and SIGTERM
\* and leaves the run request in progress.
sock_daemon_signal_handler_no_error(s, signum) ==
    IF signum = SIGHUP \/ signum = SIGUSR1
    THEN sock_daemon_reconfigure(s)
    ELSE IF signum = SIGINT \/ signum = SIGTERM
    THEN sock_daemon_shutdown(s)
    ELSE s

\* sock_daemon_signal_handler
sock_daemon_signal_handler(s, signum) ==
    IF signum = SIGHUP \/ signum = SIGUSR1
    THEN sock_daemon_reconfigure(s)
    ELSE IF signum = SIGINT \/ signum = SIGTERM
    THEN tevent_req_error(sock_daemon_shutdown(s), EINTR)
    ELSE s

\* A faulty sock_daemon_watch_pid that takes every failure of the probe for
\* a process that is gone.
sock_daemon_watch_pid_any_errno(s, probe, nomem) ==
    IF probe # "alive"
    THEN tevent_req_error(
             sock_daemon_shutdown([s EXCEPT !.run.watch_timer = FALSE]), ESRCH)
    ELSE IF nomem
    THEN [s EXCEPT !.run.watch_timer = FALSE, !.run.req = "no_memory"]
    ELSE [s EXCEPT !.run.watch_timer = TRUE]

\* sock_daemon_watch_pid.  probe is the outcome of kill(pid_watch, 0);
\* nomem: the next tevent_wakeup_send returns NULL.
sock_daemon_watch_pid(s, probe, nomem) ==
    IF probe = "ESRCH"
    THEN tevent_req_error(
             sock_daemon_shutdown([s EXCEPT !.run.watch_timer = FALSE]), ESRCH)
    ELSE IF nomem
    THEN [s EXCEPT !.run.watch_timer = FALSE, !.run.req = "no_memory"]
    ELSE [s EXCEPT !.run.watch_timer = TRUE]

\* sock_daemon_run_recv: the return value of sock_daemon_run
sock_daemon_run_recv(s) ==
    IF req_is_unix_error(s.run.req, s.run.err).is
    THEN req_is_unix_error(s.run.req, s.run.err).err
    ELSE 0

\* TALLOC_FREE(req) of the run request: its state owns the accept loops.
RECURSIVE free_run_children(_, _)
free_run_children(s, l) ==
    IF l > MaxSocks THEN s
    ELSE free_run_children(talloc_free_start(s, l), l + 1)

\* sock_daemon_run from the return of tevent_req_poll on (or at once if
\* there is no request): take the result, clear sockd->req, free the request
\* (timers, signal handlers, accept loops).
sock_daemon_run(s) ==
    Then(IF s.run.req = "null" THEN ENOMEM ELSE sock_daemon_run_recv(s), LAMBDA ret :
    [free_run_children(s, 1) EXCEPT
        !.sockd.req = FALSE,
        !.run.req = "freed", !.run.ret = ret, !.ev.ret = ret,
        !.run.started_timer = FALSE, !.run.watch_timer = FALSE,
        !.sig.cursor = 0])

-----------------------------------------------------------------------------
(* Send message to a client *)

\* sock_socket_write_send; nomem: comm_write_send returns NULL
sock_socket_write_send(s, w, c, nomem) ==
    [s EXCEPT !.writes[w] =
        [conn |-> c, subreq |-> ~nomem, status |-> 0,
         req |-> IF nomem THEN "no_memory" ELSE "in_progress"]]

\* sock_socket_write_done: comm_write_recv gives status and ret
sock_socket_write_done(s, w, status, ret) ==
    IF ~status
    THEN [s EXCEPT !.writes[w].subreq = FALSE, !.writes[w].status = ret]
    ELSE [s EXCEPT !.writes[w].subreq = FALSE]

\* sock_socket_write_recv: what it returns and stores in *perr
sock_socket_write_recv(s, w) ==
    IF req_is_unix_error(s.writes[w].req, 0).is
    THEN [ok |-> FALSE, err |-> req_is_unix_error(s.writes[w].req, 0).err]
    ELSE IF s.writes[w].status # 0 THEN [ok |-> FALSE, err |-> s.writes[w].status]
    ELSE [ok |-> TRUE, err |-> 0]

-----------------------------------------------------------------------------
(* The state after sock_daemon_setup has succeeded *)

\* sock_daemon_setup: funcs as given, the pid file created if one is named.
sock_daemon_setup(funcs, pidfile) ==
    [funcs |-> funcs, pid_ctx |-> pidfile, socket_list |-> <<>>, req |-> FALSE]

\* What may lie on the filesystem from an earlier run.
StalePaths == {{}, {"a.sock"}}

InitWith(dfuncs, pidfiles, stale) ==
    /\ \E f \in dfuncs, p \in pidfiles : sockd = sock_daemon_setup(f, p)
    /\ socks = [l \in SockIds |-> NoSock]
    /\ starts = [l \in SockIds |-> NoStart]
    /\ conns = [c \in ConnIds |-> NoConn]
    /\ \E fs \in stale : kernel = [fds |-> {}, fs |-> fs, naccept |-> 0]
    /\ run = [req |-> "none", err |-> 0, ret |-> -1, pid_watch |-> 0,
              started_timer |-> FALSE, watch_timer |-> FALSE]
    /\ sig = [cursor |-> 0]
    /\ app = [startup |-> 0, shutdown |-> 0, shutdowns |-> 0, supplied |-> {}]
    /\ writes = [w \in WriteIds |-> NoWrite]
    /\ ev = NoEv

Init == InitWith({NullDaemonFuncs, FullDaemonFuncs}, BOOLEAN, StalePaths)

\* A daemon with every callback and a pid file, on a clean filesystem.
InitServe == InitWith({FullDaemonFuncs}, {TRUE}, {{}})

-----------------------------------------------------------------------------
(* The inputs of the steps *)

\* What fails inside sock_socket_init: the allocation of the listener or a
\* system call of socket_setup.
AddFails == {"none", "sock", "socket", "set_blocking", "bind", "listen"}

\* pid_watch of sock_daemon_run: 1 or less disables the watch.
PidInputs == {1, 2}
RunFails == {"none", "req", "nomem"}

\* kill(pid_watch, 0): 0, or -1 with errno ESRCH, or -1 with another errno.
Probes == {"alive", "ESRCH", "EPERM"}

\* One accept: whether accept gave an fd, which allocation fails, what the
\* connect callback answers.
AcceptEnvs ==
    {[accepted |-> TRUE, fail |-> "none", connect |-> TRUE],
     [accepted |-> TRUE, fail |-> "none", connect |-> FALSE],
     [accepted |-> TRUE, fail |-> "accept_send", connect |-> TRUE],
     [accepted |-> TRUE, fail |-> "client", connect |-> TRUE],
     [accepted |-> TRUE, fail |-> "client_ctx", connect |-> TRUE],
     [accepted |-> TRUE, fail |-> "comm_setup", connect |-> TRUE],
     [accepted |-> FALSE, fail |-> "none", connect |-> TRUE],
     [accepted |-> FALSE, fail |-> "accept_send", connect |-> TRUE]}

\* errno of a failed comm_write_recv
WriteErrs == {EIO}

-----------------------------------------------------------------------------
(* The steps *)

\* tevent_req_poll runs the loop while the run request is in progress.
LoopRunning == run.req = "in_progress"
RunFinished == run.req \in {"null", "done", "user_error", "no_memory"}

\* A client context that sock_client_context_init has completed.
SessionLive(c) == conns[c].ctx = "live" /\ conns[c].ctx_dtor

\* The application calls sock_daemon_add_unix before sock_daemon_run.
AddUnixWith(paths, funcset, fails) ==
    /\ run.req = "none"
    /\ NumSocks(Cur) < MaxSocks
    /\ \E sockpath \in paths, funcs \in funcset, fail \in fails :
          /\ funcs \notin ValidSockFuncs => fail = "none"
          /\ LET s0 == Begin(Cur, "add_unix", NumSocks(Cur) + 1)
                 s1 == [s0 EXCEPT !.ev.sockpath = sockpath, !.ev.funcs = funcs,
                                  !.ev.fail = fail]
             IN  Apply(sock_daemon_add_unix(s1, sockpath, funcs, fail))

AddUnix == AddUnixWith(Paths, SockFuncsInputs, AddFails)

\* sock_daemon_run up to tevent_req_poll
RunSendWith(pids) ==
    /\ run.req = "none"
    /\ \E pid_watch \in pids, fail \in RunFails :
          LET s0 == [Begin(Cur, "run_send", pid_watch) EXCEPT !.ev.fail = fail]
          IN  Apply(sock_daemon_run_send(s0, pid_watch, fail))

RunSend == RunSendWith(PidInputs)

\* The timer of sock_daemon_run_send fires.
Started ==
    /\ LoopRunning
    /\ run.started_timer
    /\ Apply(sock_daemon_started(Begin(Cur, "started", 0)))

\* tevent calls the handler of a pending signal.  One pass of the loop calls
\* the handlers of all pending signals in the order of their numbers, so
\* inside a pass a handler may run after the run request has finished.
SignalHandler ==
    \E signum \in Signals :
       /\ \/ LoopRunning
          \/ RunFinished /\ sig.cursor > 0 /\ signum > sig.cursor
       /\ Apply(Then(sock_daemon_signal_handler(Begin(Cur, "signal", signum), signum),
                     LAMBDA s1 : [s1 EXCEPT !.sig.cursor =
                                     IF s1.run.req = "in_progress" THEN 0 ELSE signum]))

\* The pid poller's timer fires.
WatchPid ==
    /\ LoopRunning
    /\ run.watch_timer
    /\ \E probe \in Probes, nomem \in BOOLEAN :
          /\ nomem => probe = "alive"
          /\ LET s0 == [Begin(Cur, "watch_pid", 0) EXCEPT !.ev.fail = probe,
                                                          !.ev.ok = ~nomem]
             IN  Apply(sock_daemon_watch_pid(s0, probe, nomem))

\* A pending accept of listener l completes.
AcceptWith(envs) ==
    \E l \in SockIds, env \in envs :
       /\ LoopRunning
       /\ starts[l].req = "in_progress"
       /\ starts[l].accept
       /\ kernel.naccept < MaxConns
       /\ LET s0 == [Begin(Cur, "accept", l) EXCEPT !.ev.fail = env.fail,
                                                    !.ev.ok = env.connect,
                                                    !.ev.funcs = socks[l].funcs]
          IN  Apply(sock_socket_start_new_client(s0, l, env))

Accept == AcceptWith(AcceptEnvs)

\* The transport has a whole message of connection c.
ReadHandler ==
    \E c \in ConnIds, subreq_ok \in BOOLEAN :
       /\ LoopRunning
       /\ SessionLive(c)
       /\ conns[c].comm
       /\ conns[c].nmsg < MaxMsgs
       /\ LET s0 == [Begin(Cur, "read_handler", c) EXCEPT !.ev.ok = subreq_ok]
          IN  Apply(sock_client_read_handler(s0, c, subreq_ok))

\* A read request of connection c completes.
ReadDone ==
    \E c \in ConnIds, status \in BOOLEAN :
       /\ LoopRunning
       /\ SessionLive(c)
       /\ conns[c].pending > 0
       /\ LET s0 == [Begin(Cur, "read_done", c) EXCEPT !.ev.ok = status]
          IN  Apply(sock_client_read_done(s0, c, status))

\* The transport finds the peer of connection c gone.
DeadHandler ==
    \E c \in ConnIds :
       /\ LoopRunning
       /\ SessionLive(c)
       /\ conns[c].comm
       /\ LET s0 == [Begin(Cur, "dead", c) EXCEPT
                        !.ev.funcs = socks[conns[c].sock].funcs]
          IN  Apply(sock_client_dead_handler(s0, c))

\* The application writes to connection c.
WriteSend ==
    \E w \in WriteIds, c \in ConnIds, nomem \in BOOLEAN :
       /\ LoopRunning
       /\ SessionLive(c)
       /\ conns[c].comm
       /\ writes[w].req = "none"
       /\ \A v \in WriteIds : v < w => writes[v].req # "none"
       /\ LET s0 == [Begin(Cur, "write_send", w) EXCEPT !.ev.ok = ~nomem]
          IN  Apply(sock_socket_write_send(s0, w, c, nomem))

\* The transport finishes a write.
WriteDone ==
    \E w \in WriteIds, status \in BOOLEAN, err \in WriteErrs :
       /\ writes[w].subreq
       /\ LoopRunning
       /\ status => SessionLive(writes[w].conn)
       /\ LET ret == IF status THEN 0 ELSE err
              s0 == [Begin(Cur, "write_done", w) EXCEPT !.ev.ok = status,
                                                        !.ev.ret = ret]
          IN  Apply(sock_socket_write_done(s0, w, status, ret))

\* The application asks for the result of a write whose transport part is
\* over, and frees the request.
WriteRecv ==
    \E w \in WriteIds :
       /\ writes[w].req \notin {"none", "freed"}
       /\ ~writes[w].subreq
       /\ LET r == sock_socket_write_recv(Cur, w)
              s0 == [Begin(Cur, "write_recv", w) EXCEPT !.ev.ok = r.ok,
                                                        !.ev.ret = r.err]
          IN  Apply([s0 EXCEPT !.writes[w].req = "freed"])

\* tevent_req_poll returns; sock_daemon_run returns.
RunReturn ==
    /\ RunFinished
    /\ Apply(sock_daemon_run(Begin(Cur, "run_return", 0)))

Next ==
    \/ AddUnix
    \/ RunSend
    \/ Started
    \/ SignalHandler
    \/ WatchPid
    \/ Accept
    \/ ReadHandler
    \/ ReadDone
    \/ DeadHandler
    \/ WriteSend
    \/ WriteDone
    \/ WriteRecv
    \/ RunReturn

Spec == Init /\ [][Next]_vars

-----------------------------------------------------------------------------
(* Parts of the program taken alone *)

\* Setting up and running a daemon of any configuration, with listeners but
\* without connections: every input of sock_daemon_add_unix, accepts that
\* give no fd.
NextSetup ==
    \/ AddUnix
    \/ RunSend
    \/ Started
    \/ SignalHandler
    \/ WatchPid
    \/ AcceptWith({env \in AcceptEnvs : ~env.accepted})
    \/ RunReturn

SpecSetup == Init /\ [][NextSetup]_vars

\* Serving connections: a daemon with every callback and a pid file, without
\* a pid to watch.
NextServe ==
    \/ AddUnixWith(ShortPaths, ValidSockFuncs, {"none", "listen"})
    \/ RunSendWith({1})
    \/ Started
    \/ SignalHandler
    \/ Accept
    \/ ReadHandler
    \/ ReadDone
    \/ DeadHandler
    \/ RunReturn

SpecServe == InitServe /\ [][NextServe]_vars

\* Signals and the pid watch while connections come and go, without
\* messages.
NextSignal ==
    \/ AddUnixWith(ShortPaths, {FullSockFuncs}, {"none"})
    \/ RunSend
    \/ Started
    \/ SignalHandler
    \/ WatchPid
    \/ Accept
    \/ DeadHandler
    \/ RunReturn

SpecSignal == InitServe /\ [][NextSignal]_vars

\* The life of sessions whose listener has every callback: accepted or
\* rejected by the connect callback, messages, peer gone, teardown.
NextSession ==
    \/ AddUnixWith({"a.sock"}, {FullSockFuncs}, {"none"})
    \/ RunSendWith({1})
    \/ SignalHandler
    \/ AcceptWith({env \in AcceptEnvs : env.accepted /\ env.fail = "none"})
    \/ ReadHandler
    \/ ReadDone
    \/ DeadHandler
    \/ RunReturn

SpecSession == InitServe /\ [][NextSession]_vars

\* Writing to connections of one listener.
NextWrite ==
    \/ AddUnixWith({"a.sock"}, {FullSockFuncs}, {"none"})
    \/ RunSendWith({1})
    \/ SignalHandler
    \/ AcceptWith({env \in AcceptEnvs : env.accepted /\ env.fail = "none"})
    \/ DeadHandler
    \/ WriteSend
    \/ WriteDone
    \/ WriteRecv
    \/ RunReturn

SpecWrite == InitServe /\ [][NextWrite]_vars

-----------------------------------------------------------------------------
(* Properties *)

\* How often the event e occurs in a trace, and whether every a precedes
\* every b.
Count(trace, e) == Cardinality({i \in DOMAIN trace : trace[i] = e})
Before(trace, a, b) ==
    \A i \in DOMAIN trace :
       trace[i] = a => \A j \in DOMAIN trace : trace[j] = b => i < j

\* The listener of a live session has a disconnect callback.
HasDisconnect(c) == SessionLive(c) /\ socks[conns[c].sock].funcs.disconnect

\* C1 as stated: in every step that releases a session whose listener has a
\* disconnect callback, the callback is called for it exactly once, before
\* its registry slot, its transport and its fd are released, whichever way
\* the session ends.
C1_DisconnectOnEveryRelease ==
    [][\A c \in ConnIds :
          (HasDisconnect(c) /\ conns'[c].ctx = "none") =>
             /\ Count(ev'.trace, <<"disconnect", c>>) = 1
             /\ Before(ev'.trace, <<"disconnect", c>>, <<"unlisted", c>>)
             /\ Before(ev'.trace, <<"disconnect", c>>, <<"comm_free", c>>)
             /\ Before(ev'.trace, <<"disconnect", c>>, <<"close", ClientFd(c)>>)]_vars

\* C1 as the code has it: the disconnect callback is called exactly once,
\* before the session's registry slot, transport and fd are released, when
\* the session ends because the transport found the peer gone; no other step
\* calls it, so a session released by a failed read_recv, by read_send
\* returning no request or by the teardown of its listener ends without it.
C1_DisconnectOnPeerGone ==
    [][\A c \in ConnIds :
          /\ (HasDisconnect(c) /\ ev'.h = "dead" /\ ev'.id = c) =>
                /\ Count(ev'.trace, <<"disconnect", c>>) = 1
                /\ conns'[c] = NoConn
                /\ ClientFd(c) \notin kernel'.fds
                /\ Before(ev'.trace, <<"disconnect", c>>, <<"unlisted", c>>)
                /\ Before(ev'.trace, <<"disconnect", c>>, <<"comm_free", c>>)
                /\ Before(ev'.trace, <<"disconnect", c>>, <<"close", ClientFd(c)>>)
          /\ ~(ev'.h = "dead" /\ ev'.id = c) =>
                Count(ev'.trace, <<"disconnect", c>>) = 0]_vars

\* A peer has gone: the callback was called, the session is released.
C1_Witness ==
    /\ ev.h = "dead"
    /\ ev.funcs.disconnect
    /\ Count(ev.trace, <<"disconnect", ev.id>>) = 1
    /\ Count(ev.trace, <<"close", ClientFd(ev.id)>>) = 1
    /\ conns[ev.id] = NoConn

\* C2 as stated: a session has at most one read request pending.
C2_OnePendingRead == \A c \in ConnIds : conns[c].pending <= 1

\* C3 as stated: the open listening fds are as many as the live listeners,
\* the open accepted fds as many as the live sessions.
C3_FdCounts ==
    /\ Cardinality({fd \in kernel.fds : IsListenFd(fd)})
          = Cardinality({l \in SockIds : socks[l].mem = "live"})
    /\ Cardinality({fd \in kernel.fds : ~IsListenFd(fd)})
          = Cardinality({c \in ConnIds : conns[c].ctx = "live"})

C5_InterruptShutsDown ==
    [][/\ (LoopRunning /\ ev'.h = "signal" /\ ev'.id \in {SIGINT, SIGTERM}) =>
             /\ run'.req = "user_error"
             /\ run'.err = EINTR
             /\ app'.shutdowns = app.shutdowns + 1
             /\ sockd'.socket_list = <<>>
             /\ ~sockd'.pid_ctx
             /\ \A l \in SockIds : socks'[l].mem # "live" /\ ListenFd(l) \notin kernel'.fds
             /\ \A c \in ConnIds : conns'[c] = NoConn
             /\ (~sockd.funcs.null /\ sockd.funcs.shutdown) =>
                   Count(ev'.trace, <<"shutdown", 0>>) = 1
       /\ (run.req = "user_error" /\ run.err = EINTR /\ ev'.h = "run_return") =>
             run'.ret = EINTR]_vars

\* SIGTERM arrived before the started timer fired, with a session open.
C5_Witness ==
    /\ ev.h = "signal"
    /\ ev.id = SIGTERM
    /\ run.started_timer
    /\ app.startup = 0
    /\ app.shutdowns = 1
    /\ run.req = "user_error"
    /\ run.err = EINTR
    /\ Count(ev.trace, <<"comm_free", 1>>) = 1

\* C6: the handler of SIGHUP or SIGUSR1, called while the run request is in
\* progress, calls the reconfigure callback (if there is one) exactly once
\* and changes nothing: the run request, the listeners, their fds, the
\* sessions and the pid file are as before.
C6_ReconfigureOnly ==
    [][(LoopRunning /\ ev'.h = "signal" /\ ev'.id \in {SIGHUP, SIGUSR1}) =>
          /\ ev'.trace = IF ~sockd.funcs.null /\ sockd.funcs.reconfigure
                         THEN << <<"reconfigure", 0>> >>
                         ELSE << >>
          /\ run' = run
          /\ sockd' = sockd
          /\ socks' = socks
          /\ starts' = starts
          /\ conns' = conns
          /\ kernel' = kernel
          /\ writes' = writes
          /\ app' = app]_vars

\* SIGUSR1 arrived while a session was open.
C6_Witness ==
    /\ ev.h = "signal"
    /\ ev.id = SIGUSR1
    /\ ev.trace = << <<"reconfigure", 0>> >>
    /\ LoopRunning
    /\ \E c \in ConnIds : SessionLive(c)

\* C7 as stated: the shutdown callback is called at most once per run, and
\* no step calls the reconfigure callback once the shutdown sequence has run.
C7_ShutdownOnce ==
    /\ app.shutdown <= 1
    /\ app.shutdowns > 0 => Count(ev.trace, <<"reconfigure", 0>>) = 0

\* C8 as stated: sock_socket_write_recv reports success exactly when the
\* transport's write succeeded and no error is latched, and else the first
\* error: that of the request before the latched status of the transport.
C8_WriteRecvResult ==
    [][\A w \in WriteIds :
          (ev'.h = "write_recv" /\ ev'.id = w /\ writes[w].req \in {"in_progress", "no_memory"}) =>
             /\ ev'.ok <=> (writes[w].req # "no_memory" /\ ~writes[w].subreq
                               /\ writes[w].status = 0)
             /\ ~ev'.ok =>
                   ev'.ret = IF writes[w].req = "no_memory" THEN ENOMEM
                             ELSE writes[w].status]_vars

\* The callback table of a call is not usable.
InvalidFuncs(funcs) == funcs.null \/ ~funcs.read_send \/ ~funcs.read_recv

\* C9: sock_daemon_add_unix with no callback table, or with one that lacks
\* read_send or read_recv, returns EINVAL, creates no fd, makes no unlink and
\* no bind on the path, and adds no listener: the filesystem, the open fds
\* and the socket list are as before.
C9_InvalidFuncsRejected ==
    [][(run.req = "none" /\ ev'.h = "add_unix" /\ InvalidFuncs(ev'.funcs)) =>
          /\ ev'.ret = EINVAL
          /\ ev'.made = 0
          /\ ev'.pathops = 0
          /\ ev'.trace = << >>
          /\ kernel' = kernel
          /\ socks' = socks
          /\ sockd' = sockd]_vars

\* A call without read_recv on a path that exists, in a daemon with a pid
\* file (which would remove the path before use).
C9_Witness ==
    /\ ev.h = "add_unix"
    /\ ev.funcs = NoReadRecvFuncs
    /\ ev.ret = EINVAL
    /\ sockd.pid_ctx
    /\ ev.sockpath \in kernel.fs

\* C10 as stated: only connections that the connect callback accepted have
\* an entry in a listener's client list.
C10_RegistryOnlyAccepted ==
    \A l \in SockIds :
       \A i \in DOMAIN starts[l].client_list :
          conns[starts[l].client_list[i]].ctx = "live"

-----------------------------------------------------------------------------
(* The pid watch *)

-----------------------------------------------------------------------------
(* Failure of an accept loop *)

\* The accept loop of the step's listener has ended: the only ends the code
\* has are the failed allocation of the next accept and of the new client.
AcceptLoopFailed(e) == e.h = "accept" /\ e.fail \in {"accept_send", "client"}

\* Listeners, accept loops, sessions, listening fds and the pid file are all
\* gone.
AllShutDown(sd, sk, st, cn, kn) ==
    /\ sd.socket_list = <<>>
    /\ ~sd.pid_ctx
    /\ \A l \in SockIds :
          /\ sk[l].mem \in {"none", "freed"}
          /\ st[l].req \in {"none", "freed"}
          /\ ~st[l].accept
          /\ st[l].client_list = <<>>
          /\ ListenFd(l) \notin kn.fds
          /\ sk[l].mem = "freed" => sk[l].sockpath \notin kn.fs
    /\ \A c \in ConnIds : cn[c].ctx # "live" /\ cn[c].client # "live"

-----------------------------------------------------------------------------
(* Adding a listener *)

\* The step is a sock_daemon_add_unix that gets as far as bind(): callbacks
\* present, a path that fits, no failure before bind.
AddUnixBinds(e) ==
    /\ e.h = "add_unix"
    /\ ~InvalidFuncs(e.funcs)
    /\ ~PathTooLong(e.sockpath)
    /\ e.fail \in {"none", "bind", "listen"}

\* C13: sock_daemon_add_unix unlinks the path before bind exactly when the
\* context holds a pid file (one path operation more than the bind).  With a
\* pid file an existing path is replaced and the listener is added.  Without
\* one, an existing path makes the call return EIO: the path stays, the new
\* fd is closed again, no listener is added.  No call posts an accept or
\* touches the run request.
C13_RemoveBeforeUse ==
    [][/\ AddUnixBinds(ev')
              => /\ ev'.pathops = (IF sockd.pid_ctx THEN 2 ELSE 1)
                 /\ (ev'.sockpath \in kernel.fs /\ sockd.pid_ctx /\ ev'.fail = "none")
                       => /\ ev'.ret = 0
                          /\ socks'[ev'.id].mem = "live"
                          /\ socks'[ev'.id].sockpath = ev'.sockpath
                          /\ sockd'.socket_list = <<ev'.id>> \o sockd.socket_list
                          /\ ev'.sockpath \in kernel'.fs
                          /\ ListenFd(ev'.id) \in kernel'.fds
                 /\ (ev'.sockpath \in kernel.fs /\ ~sockd.pid_ctx)
                       => /\ ev'.ret = EIO
                          /\ kernel' = kernel
                          /\ sockd' = sockd
                          /\ socks' = socks
       /\ ev'.h = "add_unix"
              => /\ starts' = starts
                 /\ run' = run
                 /\ run'.req = "none"
                 /\ \A l \in SockIds :
                       /\ starts'[l].req = "none"
                       /\ ~starts'[l].accept
                       /\ ~socks'[l].req]_vars

\* Without a pid file, an add_unix on an existing path has failed with EIO.
C13_Witness ==
    /\ AddUnixBinds(ev) /\ ev.fail = "none"
    /\ ~sockd.pid_ctx
    /\ ev.sockpath \in kernel.fs
    /\ ev.ret = EIO /\ ev.made = 1 /\ ev.pathops = 1
    /\ ListenFd(ev.id) \notin kernel.fds

\* C14 as stated: sock_daemon_add_unix with a path too long for sun_path
\* returns EINVAL, makes no fd and adds no listener.
C14_LongPathInvalidArgument ==
    [][(/\ ev'.h = "add_unix"
        /\ PathTooLong(ev'.sockpath)
        /\ ~InvalidFuncs(ev'.funcs)
        /\ ev'.fail = "none")
          => /\ ev'.ret = EINVAL
             /\ ev'.made = 0
             /\ kernel' = kernel
             /\ sockd' = sockd
             /\ socks' = socks]_vars

-----------------------------------------------------------------------------
(* The order of the shutdown *)

\* C15: in a step that performs the shutdown, every listener that was live
\* is taken off the list and freed: the sessions on its client list are
\* released first (slot, transport, fd), then its listening fd is closed,
\* then its path is unlinked.  All of this precedes the one call of the
\* shutdown callback, and the release of the pid file follows that call.  So
\* when the callback runs no listener and no session is left and the pid
\* file is still held.
C15_ShutdownOrder ==
    [][app'.shutdowns > app.shutdowns
          => /\ Count(ev'.trace, <<"shutdown", 0>>) = 1
             /\ AllShutDown(sockd', socks', starts', conns', kernel')
             /\ sockd.pid_ctx
                   => /\ Count(ev'.trace, <<"pidfile_free", 0>>) = 1
                      /\ Before(ev'.trace, <<"shutdown", 0>>, <<"pidfile_free", 0>>)
             /\ \A l \in SockIds :
                   socks[l].mem = "live"
                      => /\ Count(ev'.trace, <<"close", ListenFd(l)>>) = 1
                         /\ Count(ev'.trace, <<"unlink", l>>) = 1
                         /\ Before(ev'.trace, <<"close", ListenFd(l)>>, <<"unlink", l>>)
                         /\ Before(ev'.trace, <<"unlink", l>>, <<"shutdown", 0>>)
             /\ \A c \in ConnIds :
                   SessionLive(c)
                      => /\ Count(ev'.trace, <<"unlisted", c>>) = 1
                         /\ Count(ev'.trace, <<"comm_free", c>>) = 1
                         /\ Count(ev'.trace, <<"close", ClientFd(c)>>) = 1
                         /\ Before(ev'.trace, <<"unlisted", c>>,
                                   <<"close", ListenFd(conns[c].sock)>>)
                         /\ Before(ev'.trace, <<"comm_free", c>>,
                                   <<"close", ListenFd(conns[c].sock)>>)
                         /\ Before(ev'.trace, <<"close", ClientFd(c)>>,
                                   <<"close", ListenFd(conns[c].sock)>>)]_vars

\* A shutdown has released a session, its listener and the pid file.
C15_Witness ==
    /\ app.shutdowns = 1
    /\ Count(ev.trace, <<"close", ClientFd(1)>>) = 1
    /\ Count(ev.trace, <<"unlink", 1>>) = 1
    /\ Count(ev.trace, <<"shutdown", 0>>) = 1
    /\ Count(ev.trace, <<"pidfile_free", 0>>) = 1

-----------------------------------------------------------------------------
(* Failures while a session is made *)

\* C16 as stated: when the allocation of the client, the allocation of the
\* client context or comm_setup fails for a newly accepted fd, the fd is
\* closed, nothing of the session remains, and the accept loop goes on: the
\* next accept is pending and the run request is in progress.
C16_FailedSessionReleased ==
    [][(/\ ev'.h = "accept"
        /\ ev'.fail \in {"client", "client_ctx", "comm_setup"})
          => /\ ClientFd(kernel'.naccept) \notin kernel'.fds
             /\ conns'[kernel'.naccept] = NoConn
             /\ starts'[ev'.id].client_list = starts[ev'.id].client_list
             /\ starts'[ev'.id].req = "in_progress"
             /\ starts'[ev'.id].accept
             /\ run' = run
             /\ run'.req = "in_progress"]_vars

-----------------------------------------------------------------------------
(* The accept loop goes on *)

\* The step is the completion of an accept that gave no fd, with the next
\* accept allocated.
AcceptGaveNoFd(e) ==
    /\ e.h = "accept"
    /\ e.fail = "none"
    /\ \A c \in ConnIds : Count(e.trace, <<"accepted", c>>) = 0

\* C17: every completion of an accept whose successor is allocated posts
\* that successor once, before anything is done with the new fd (connect
\* callback, registry, close).  A completion without fd does nothing else:
\* the listener, its sessions and the run request are as before and the
\* accept is pending again, so the next connection can be accepted.  Between
\* steps a running accept loop always has its accept pending.
C17_AcceptRepost ==
    [][/\ (ev'.h = "accept" /\ ev'.fail # "accept_send")
              => /\ Count(ev'.trace, <<"accept_send", ev'.id>>) = 1
                 /\ \A c \in ConnIds :
                       /\ Before(ev'.trace, <<"accept_send", ev'.id>>, <<"connect", c>>)
                       /\ Before(ev'.trace, <<"accept_send", ev'.id>>, <<"listed", c>>)
                       /\ Before(ev'.trace, <<"accept_send", ev'.id>>,
                                 <<"close", ClientFd(c)>>)
       /\ AcceptGaveNoFd(ev')
              => /\ ev'.trace = <<<<"accept_send", ev'.id>>>>
                 /\ starts'[ev'.id].req = "in_progress"
                 /\ starts'[ev'.id].accept
                 /\ run'.req = "in_progress"
                 /\ <<sockd, socks, starts, conns, kernel, run, app>>' =
                        <<sockd, socks, starts, conns, kernel, run, app>>
       /\ \A l \in SockIds :
             (run'.req = "in_progress" /\ starts'[l].req = "in_progress")
                => starts'[l].accept]_vars

\* An accept has failed after a connection was accepted, and the loop still
\* waits for the next one.
C17_Witness ==
    /\ AcceptGaveNoFd(ev)
    /\ kernel.naccept = 1
    /\ SessionLive(1)
    /\ starts[ev.id].accept
    /\ run.req = "in_progress"

-----------------------------------------------------------------------------
(* Failures of one session *)

\* Sessions with their messages and writes, while the daemon runs.
NextTransport ==
    \/ AddUnixWith(ShortPaths, {FullSockFuncs}, {"none"})
    \/ RunSendWith({1})
    \/ AcceptWith({env \in AcceptEnvs : env.accepted /\ env.fail = "none"})
    \/ ReadHandler
    \/ ReadDone
    \/ DeadHandler
    \/ WriteSend
    \/ WriteDone

\* A daemon with every callback and no pid file, on a clean filesystem: each
\* path can be bound once.
InitPlain == InitWith({FullDaemonFuncs}, {FALSE}, {{}})

SpecTransport == InitPlain /\ [][NextTransport]_vars


Range(seq) == {seq[i] : i \in DOMAIN seq}

\* The step is a failure of session c: read_send gave no request, read_recv
\* reported failure, the peer is gone, or a write to it failed.
SessionFailure(e, c) ==
    \/ e.h = "read_handler" /\ ~e.ok /\ e.id = c
    \/ e.h = "read_done" /\ ~e.ok /\ e.id = c
    \/ e.h = "dead" /\ e.id = c
    \/ e.h = "write_done" /\ ~e.ok /\ writes[e.id].conn = c

\* C18: a failure of one session releases at most that session.  The run
\* request stays in progress without a result; the daemon, every listener,
\* every accept loop with its pending accept and every other session are as
\* before; the only registry entry removed and the only fd closed are that
\* session's.  A failed read or a dead peer releases the session whole; a
\* failed write releases nothing.
C18_OneSessionOnly ==
    [][\A c \in ConnIds :
          SessionFailure(ev', c)
             => /\ run' = run
                /\ run'.req = "in_progress"
                /\ sockd' = sockd
                /\ socks' = socks
                /\ app' = app
                /\ \A d \in ConnIds \ {c} : conns'[d] = conns[d]
                /\ \A l \in SockIds :
                      /\ starts'[l].req = starts[l].req
                      /\ starts'[l].accept = starts[l].accept
                      /\ starts'[l].client_list \in
                            {starts[l].client_list, RemoveFrom(starts[l].client_list, c)}
                /\ kernel'.fs = kernel.fs
                /\ kernel'.naccept = kernel.naccept
                /\ kernel'.fds \subseteq kernel.fds
                /\ kernel.fds \ kernel'.fds \subseteq {ClientFd(c)}
                /\ IF ev'.h = "write_done"
                   THEN conns' = conns /\ kernel' = kernel /\ starts' = starts
                   ELSE /\ conns'[c] = NoConn
                        /\ ClientFd(c) \notin kernel'.fds
                        /\ \A l \in SockIds : c \notin Range(starts'[l].client_list)]_vars

\* A read of one session has failed while another session and a write to it
\* were in progress.
C18_Witness ==
    /\ ev.h = "read_done" /\ ~ev.ok
    /\ conns[ev.id] = NoConn
    /\ \E d \in ConnIds \ {ev.id} : SessionLive(d) /\ writes[1].conn = d /\ writes[1].subreq
    /\ run.req = "in_progress"

-----------------------------------------------------------------------------
(* Releasing a session once *)

\* Connection c was accepted earlier and nothing of it is left.
Released(c) == c <= kernel.naccept /\ conns[c] = NoConn

\* C19: whichever of the peer's death, a failed read and the teardown of the
\* accept loop reaches a session first releases it whole in that step: its
\* registry entry is removed once, its transport freed once, its fd closed
\* once.  No step closes the fd of a connection twice or closes one that is
\* not open, and a registry entry is removed only for a client that was
\* live.  A step after the release, the teardown included, has no event for
\* the released connection and leaves it released.
C19_ReleasedOnce ==
    [][\A c \in ConnIds :
          LET closed == Count(ev'.trace, <<"close", ClientFd(c)>>)
              unlisted == Count(ev'.trace, <<"unlisted", c>>)
              comm_freed == Count(ev'.trace, <<"comm_free", c>>)
          IN  /\ closed <= 1
              /\ unlisted <= 1
              /\ comm_freed <= 1
              /\ closed = 1
                    => ClientFd(c) \in kernel.fds \/ Count(ev'.trace, <<"accepted", c>>) = 1
              /\ unlisted = 1 => conns[c].client = "live"
              /\ (SessionLive(c) /\ ~SessionLive(c)')
                    => /\ closed = 1
                       /\ unlisted = 1
                       /\ comm_freed = 1
                       /\ conns'[c] = NoConn
                       /\ ClientFd(c) \notin kernel'.fds
                       /\ \A l \in SockIds : c \notin Range(starts'[l].client_list)
              /\ Released(c)
                    => /\ Released(c)'
                       /\ closed = 0
                       /\ unlisted = 0
                       /\ comm_freed = 0]_vars

\* The shutdown has torn down the second session after the first had been
\* released by an earlier step.
C19_Witness ==
    /\ ev.h = "signal"
    /\ app.shutdowns = 1
    /\ kernel.naccept = 2
    /\ Count(ev.trace, <<"close", ClientFd(1)>>) = 0
    /\ Count(ev.trace, <<"unlisted", 1>>) = 0
    /\ Count(ev.trace, <<"close", ClientFd(2)>>) = 1
    /\ \A c \in ConnIds : conns[c] = NoConn /\ ClientFd(c) \notin kernel.fds

-----------------------------------------------------------------------------
(* Completion of the run and the shutdown *)

\* C20 as stated: at the point where a handler finishes the run request
\* with EINTR, ESRCH or the error of an accept loop, the shutdown has been
\* performed: every listener that was live has been closed and unlinked, the
\* shutdown callback has been called and the pid file has been released.
C20_ShutdownBeforeComplete ==
    [][\A err \in {EINTR, ESRCH, ENOMEM, EIO} :
          Count(ev'.trace, <<"run_complete", err>>) > 0
             => /\ AllShutDown(sockd', socks', starts', conns', kernel')
                /\ \A l \in SockIds :
                      socks[l].mem = "live"
                         => /\ Count(ev'.trace, <<"unlink", l>>) = 1
                            /\ Before(ev'.trace, <<"close", ListenFd(l)>>,
                                      <<"run_complete", err>>)
                            /\ Before(ev'.trace, <<"unlink", l>>, <<"run_complete", err>>)
                /\ Count(ev'.trace, <<"shutdown", 0>>) = 1
                /\ Before(ev'.trace, <<"shutdown", 0>>, <<"run_complete", err>>)
                /\ Before(ev'.trace, <<"pidfile_free", 0>>, <<"run_complete", err>>)]_vars


\* The life of the sessions of a daemon without pid file, which can bind its
\* one path once.
SpecRelease == InitPlain /\ [][NextSession]_vars

-----------------------------------------------------------------------------
(* The startup callback *)

\* C21: the startup callback is called only by the step in which the timer
\* of sock_daemon_run_send fires, while the run request is in progress; that
\* step disarms the timer, so the callback is called at most once in a run.
\* sock_daemon_run_send itself arms the timer and calls nothing.
C21_StartupOnceInLoop ==
    [][/\ ev'.h = "run_send"
              => /\ app'.startup = app.startup
                 /\ Count(ev'.trace, <<"startup", 0>>) = 0
                 /\ ev'.fail = "none" => run'.started_timer
       /\ (app'.startup # app.startup \/ Count(ev'.trace, <<"startup", 0>>) > 0)
              => /\ ev'.h = "started"
                 /\ run.req = "in_progress"
                 /\ run.started_timer
                 /\ ~run'.started_timer
                 /\ Count(ev'.trace, <<"startup", 0>>) = 1
                 /\ app.startup = 0
                 /\ app'.startup = 1
       /\ app'.startup <= 1]_vars

\* The timer has fired in the loop and the startup callback has been called.
C21_Witness ==
    /\ ev.h = "started"
    /\ ev.trace = <<<<"startup", 0>>>>
    /\ app.startup = 1
    /\ run.req = "in_progress"
    /\ ~run.started_timer

-----------------------------------------------------------------------------
(* Completion of a write *)

\* C22 as stated: when the transport's write of a write request finishes,
\* with success or with an error, the request is completed (done, or failed
\* with the error), so that its callback is called and
\* sock_socket_write_recv can take the result.
C22_WriteCompletes ==
    [][\A w \in WriteIds :
          (ev'.h = "write_done" /\ ev'.id = w)
             => /\ ~writes'[w].subreq
                /\ writes'[w].req \in {"done", "user_error"}]_vars

-----------------------------------------------------------------------------
(* No callback after the release of a session *)

\* C23: read_send, read_recv and the disconnect callback are called only
\* for a session that is live when the step begins, and inside the step only
\* before anything of the session is released (registry entry, transport,
\* fd, pending reads).  The release frees the transport and the read
\* requests still pending, so a connection that is not a live session has no
\* transport and no pending read, and no later step can deliver a message,
\* a read result or the peer's death for it.
C23_NoCallbackAfterRelease ==
    [][\A c \in ConnIds :
          /\ \A cb \in {"read_send", "read_recv", "disconnect"} :
                Count(ev'.trace, <<cb, c>>) > 0
                   => /\ SessionLive(c)
                      /\ Before(ev'.trace, <<cb, c>>, <<"unlisted", c>>)
                      /\ Before(ev'.trace, <<cb, c>>, <<"comm_free", c>>)
                      /\ Before(ev'.trace, <<cb, c>>, <<"read_free", c>>)
                      /\ Before(ev'.trace, <<cb, c>>, <<"close", ClientFd(c)>>)
          /\ ~SessionLive(c)' => conns'[c].pending = 0 /\ ~conns'[c].comm
          /\ (SessionLive(c) /\ ~SessionLive(c)' /\ conns[c].pending > 0
                 /\ ~(ev'.h = "read_done" /\ ev'.id = c /\ conns[c].pending = 1))
                => Count(ev'.trace, <<"read_free", c>>) = 1
          /\ ~SessionLive(c)
                => \A cb \in {"read_send", "read_recv", "disconnect"} :
                      Count(ev'.trace, <<cb, c>>) = 0]_vars

\* The peer of a session has gone while a read of the session was pending:
\* the disconnect callback was called, then the read was freed with the
\* session.
C23_Witness ==
    /\ ev.h = "dead"
    /\ Count(ev.trace, <<"disconnect", ev.id>>) = 1
    /\ Count(ev.trace, <<"read_free", ev.id>>) = 1
    /\ Count(ev.trace, <<"read_recv", ev.id>>) = 0
    /\ conns[ev.id] = NoConn

=============================================================================
